---- MODULE Spec2Model ----
(***************************************************************************)
(* Model of mstickerlib/src/image.rs: the format-gated stage functions of  *)
(* Image (unpack_tgs, convert_lottie, convert_webm2webp, resize), the      *)
(* geometry function resize_preserving_aspect_ratio computed in IEEE-754   *)
(* binary64 as the code computes it, the spawn_blocking + rayon_run        *)
(* offload of the stage closures, and the cache-backed Image::upload.      *)
(*                                                                         *)
(* Five specifications share the variables:                                *)
(*   SpecGeom        the pure geometry function applied to bounded inputs  *)
(*   Spec            one Image threaded through a bounded sequence of      *)
(*                   stage calls                                           *)
(*   SpecLive        Spec with the runtime resuming a task whose closure   *)
(*                   is over                                               *)
(*   SpecUpload      non-overlapping upload calls against one cache/remote *)
(*   SpecUploadConc  overlapping upload calls of independent tasks         *)
(***************************************************************************)
EXTENDS Integers, Sequences, FiniteSets, TLC

(***************************************************************************)
(* Bounds of the model.                                                    *)
(***************************************************************************)
MaxDim == 4        \* SpecGeom: source dimensions range over 1..MaxDim (plus the listed cases)
MaxBox == 4        \* SpecGeom: present bounds range over 1..MaxBox (plus the listed cases)
MaxSrc == 3        \* Spec: native pixel widths of the initial bytes are 1..MaxSrc
MaxBound == 2      \* Spec: stage bounds max_width/max_height are None or 1..MaxBound
MaxStages == 3     \* Spec: number of stage calls applied to the object
MaxUploads == 3    \* SpecUpload: number of upload calls started
NumTasks == 2      \* SpecUpload: tasks that may call upload

NoneV == -1        \* Option::None of an Option<u32>; Some(n) is the number n

(***************************************************************************)
(* File names are Strings: sequences of one-character strings, so that     *)
(* ends_with, truncate, += and Path::extension act on the characters.      *)
(***************************************************************************)
EndsWith(s, suffix) ==
    /\ Len(s) >= Len(suffix)
    /\ SubSeq(s, Len(s) - Len(suffix) + 1, Len(s)) = suffix

Truncate(s, new_len) == SubSeq(s, 1, new_len)

Tgs == <<"t", "g", "s">>
Lottie == <<"l", "o", "t", "t", "i", "e">>
Gif == <<"g", "i", "f">>
Webp == <<"w", "e", "b", "p">>
Webm == <<"w", "e", "b", "m">>
Png == <<"p", "n", "g">>
Bad == <<"?">>     \* bytes in no known encoding (not gzip, not an animation, not an image)
Dot(ext) == <<".">> \o ext

(***************************************************************************)
(* Path::new(&file_name).extension() for a name without path separators:   *)
(* the part after the last '.', None when there is no '.' or when the only *)
(* '.' is the first character.                                             *)
(***************************************************************************)
LastDot(s) ==
    LET dots == {i \in 1..Len(s) : s[i] = "."}
    IN  IF dots = {} THEN 0 ELSE CHOOSE i \in dots : \A j \in dots : j <= i

NoExtension == <<"None">>
extension(file_name) ==
    IF LastDot(file_name) <= 1
    THEN NoExtension
    ELSE <<"Some", SubSeq(file_name, LastDot(file_name) + 1, Len(file_name))>>

(***************************************************************************)
(* IEEE-754 binary64 on non-negative finite values.  A value is m * 2^e    *)
(* with 2^52 <= m < 2^53 (or zero).  The 53-bit significand does not fit   *)
(* a TLC integer, so it is kept in five limbs of 15 bits, least            *)
(* significant first.  Every operation rounds to nearest, ties to even.    *)
(***************************************************************************)
B == 2^15
BZero == <<0, 0, 0, 0, 0>>
P52 == <<0, 0, 0, 2^7, 0>>
P53 == <<0, 0, 0, 2^8, 0>>
P54 == <<0, 0, 0, 2^9, 0>>

BDouble(x) ==
    LET t1 == 2 * x[1]
        t2 == 2 * x[2] + t1 \div B
        t3 == 2 * x[3] + t2 \div B
        t4 == 2 * x[4] + t3 \div B
        t5 == 2 * x[5] + t4 \div B
    IN  <<t1 % B, t2 % B, t3 % B, t4 % B, t5 % B>>

BInc(x) ==
    LET t1 == x[1] + 1
        t2 == x[2] + t1 \div B
        t3 == x[3] + t2 \div B
        t4 == x[4] + t3 \div B
        t5 == x[5] + t4 \div B
    IN  <<t1 % B, t2 % B, t3 % B, t4 % B, t5 % B>>

BMulSmall(x, n) ==
    LET t1 == x[1] * n
        t2 == x[2] * n + t1 \div B
        t3 == x[3] * n + t2 \div B
        t4 == x[4] * n + t3 \div B
        t5 == x[5] * n + t4 \div B
    IN  <<t1 % B, t2 % B, t3 % B, t4 % B, t5 % B>>

BLess(x, y) ==
    \/ x[5] < y[5]
    \/ x[5] = y[5] /\ x[4] < y[4]
    \/ x[5] = y[5] /\ x[4] = y[4] /\ x[3] < y[3]
    \/ x[5] = y[5] /\ x[4] = y[4] /\ x[3] = y[3] /\ x[2] < y[2]
    \/ x[5] = y[5] /\ x[4] = y[4] /\ x[3] = y[3] /\ x[2] = y[2] /\ x[1] < y[1]

BSub(x, y) ==
    LET d1 == x[1] - y[1]
        b1 == IF d1 < 0 THEN 1 ELSE 0
        d2 == x[2] - y[2] - b1
        b2 == IF d2 < 0 THEN 1 ELSE 0
        d3 == x[3] - y[3] - b2
        b3 == IF d3 < 0 THEN 1 ELSE 0
        d4 == x[4] - y[4] - b3
        b4 == IF d4 < 0 THEN 1 ELSE 0
        d5 == x[5] - y[5] - b4
    IN  <<d1 + b1 * B, d2 + b2 * B, d3 + b3 * B, d4 + b4 * B, d5>>

FZero == [m |-> BZero, e |-> 0]

\* number of significant bits of a natural below 2^31
RECURSIVE BitLen(_)
BitLen(n) == IF n = 0 THEN 0 ELSE 1 + BitLen(n \div 2)

\* x div 2^s, 0 <= s <= 15
BShr(x, s) ==
    LET lo == 2^s
        hi == 2^(15 - s)
    IN  << x[1] \div lo + (x[2] % lo) * hi,
           x[2] \div lo + (x[3] % lo) * hi,
           x[3] \div lo + (x[4] % lo) * hi,
           x[4] \div lo + (x[5] % lo) * hi,
           x[5] \div lo >>

\* Round x * 2^e (2^52 <= x < 2^68; st: a non-zero part below x was already cut
\* off) to 53 significant bits, to nearest, ties to even.
RoundEven(x, e, st) ==
    LET s == BitLen(x[4] + B * x[5]) - 8          \* bits to drop, 0..15
        low == x[1] % 2^s                          \* the dropped bits
        half == IF s = 0 THEN 1 ELSE 2^(s - 1)
        rnd == s > 0 /\ low >= half
        sticky == st \/ (s > 0 /\ low % half # 0)
        q == BShr(x, s)
        up == BInc(q)
    IN  IF rnd /\ (sticky \/ q[1] % 2 = 1)
        THEN IF up = P53 THEN [m |-> P52, e |-> e + s + 1] ELSE [m |-> up, e |-> e + s]
        ELSE [m |-> q, e |-> e + s]

\* (n as f64) / (d as f64) for u32 0 <= n, 0 < d < 2^15: both conversions are
\* exact, so the quotient is n/d rounded once.  Long division in base 2^15.
FDivU32(n, d) ==
    IF n = 0 THEN FZero
    ELSE LET ln == BitLen(n)
             ld == BitLen(d)
             d1 == d * 2^(15 - ld)                 \* 2^14 <= d1 < 2^15
             n0 == n * 2^(15 - ln)
             lt == n0 < d1
             n1 == IF lt THEN 2 * n0 ELSE n0       \* d1 <= n1 < 2 * d1
             r0 == n1 - d1
             q1 == (r0 * B) \div d1
             r1 == (r0 * B) % d1
             q2 == (r1 * B) \div d1
             r2 == (r1 * B) % d1
             q3 == (r2 * B) \div d1
             r3 == (r2 * B) % d1
             q4 == (r3 * B) \div d1
             r4 == (r3 * B) % d1
         IN  RoundEven(<<q4, q3, q2, q1, 1>>, ln - ld - (IF lt THEN 1 ELSE 0) - 60, r4 # 0)

\* `n as f64` for a u32 n below 2^15: exact
FromU32(n) == FDivU32(n, 1)

\* binary long division of significands: quotient bits until 54 are significant;
\* st: a remainder is left
RECURSIVE DivBits(_, _, _, _)
DivBits(rem, d, q, e) ==
    IF ~BLess(q, P54)
    THEN [q |-> q, e |-> e, st |-> rem # BZero]
    ELSE IF BLess(rem, d)
         THEN DivBits(BDouble(rem), d, BDouble(q), e - 1)
         ELSE DivBits(BDouble(BSub(rem, d)), d, BInc(BDouble(q)), e - 1)

\* f / g for g > 0
FDiv(f, g) ==
    IF f = FZero THEN FZero
    ELSE LET r == DivBits(f.m, g.m, BZero, f.e - g.e + 1)
         IN  RoundEven(r.q, r.e, r.st)

\* (n as f64) * f for a u32 n below 2^15
FMulU32(n, f) ==
    IF n = 0 \/ f = FZero THEN FZero
    ELSE RoundEven(BMulSmall(f.m, n), f.e, FALSE)

FLess(f, g) ==
    IF g = FZero THEN FALSE
    ELSE IF f = FZero THEN TRUE
    ELSE f.e < g.e \/ (f.e = g.e /\ BLess(f.m, g.m))

\* f64::min
FMin_takes_larger(f, g) == IF FLess(g, f) THEN f ELSE g
FMin(f, g) == IF FLess(g, f) THEN g ELSE f

\* `f.round() as u32`: round half away from zero; for values below 2^29, where
\* the cast does not saturate
FRoundU32(f) ==
    IF f = FZero \/ f.e < -54 THEN 0
    ELSE LET s == (-f.e) - 1                       \* twice the value is m div 2^s
             a == s \div 15
             r == s % 15
             limb(i) == IF i <= 5 THEN f.m[i] ELSE 0
             twice == limb(a + 1) \div 2^r + limb(a + 2) * 2^(15 - r)
                      + (IF limb(a + 3) = 0 THEN 0 ELSE limb(a + 3) * 2^(30 - r))
         IN  (twice + 1) \div 2

(***************************************************************************)
(* Image::resize_preserving_aspect_ratio, image.rs 185-219.                *)
(***************************************************************************)
resize_preserving_aspect_ratio(width, height, max_width, max_height) ==
    LET aspect_ratio == FDivU32(width, height)
    IN  IF max_width = NoneV /\ max_height = NoneV
        THEN <<width, height>>
        ELSE IF max_height = NoneV
        THEN LET new_width == FromU32(max_width)
                 new_height == FDiv(new_width, aspect_ratio)
             IN  <<FRoundU32(new_width), FRoundU32(new_height)>>
        ELSE IF max_width = NoneV
        THEN LET new_height == FromU32(max_height)
                 new_width == FMulU32(max_height, aspect_ratio)
             IN  <<FRoundU32(new_width), FRoundU32(new_height)>>
        ELSE LET scale_w == FDivU32(max_width, width)
                 scale_h == FDivU32(max_height, height)
                 scale == FMin(scale_w, scale_h)
                 new_width == FMulU32(width, scale)
                 new_height == FMulU32(height, scale)
             IN  <<FRoundU32(new_width), FRoundU32(new_height)>>

(***************************************************************************)
(* State.                                                                  *)
(***************************************************************************)
VARIABLES
    \* ---- geometry (SpecGeom)
    gin,        \* <<width, height, max_width, max_height>> given to the function
    gout,       \* its result <<width, height>>, or <<>> before the call
    \* ---- one Image through the stages (Spec)
    image,      \* the Image value (owned by the caller or moved into the closure), NoImage once dropped
    pc,         \* where the object is: "caller", "queued", a closure step, "finished", "end"
    stage,      \* the stage function being executed
    cont,       \* the stage function awaiting a nested unpack_tgs, or "none"
    args,       \* [fmt, max_width, max_height] of the call in progress
    tmp,        \* temporary files that exist on disk
    cancelled,  \* the orchestrating task was dropped while awaiting the closure
    cres,       \* what the closure returned: [kind, err]
    ret,        \* what the last stage call returned to the caller: [kind, err]
    arg,        \* the Image the last stage call was given
    image0,     \* the Image the pipeline started from
    ncalls,     \* stage calls made so far
    ndispatch,  \* closures dispatched by the last stage call
    ntmp,       \* temporary files created by the last stage call
    pipeline,   \* how many calls were made so far if they follow PipelineOrder, else -1
    \* ---- upload (SpecUpload)
    cache,      \* the Database: a function fingerprint -> url on the stored fingerprints
    remote,     \* the media store: the sequence of accepted uploads
    upc,        \* per task: "idle", "get", "upload", "add", "done"
    uarg,       \* per task: [file_name, data, db] of the call
    umxc,       \* per task: the Mxc returned by matrix::upload
    uret,       \* per task: what upload returned
    ucalls,     \* per task: the collaborator calls of this call, with their outcome
    cache0,     \* per task: the cache when the call started
    remote0,    \* per task: the media store when the call started
    prior,      \* per byte content: upload calls completed so far
    priorExt,   \* per byte content: completed upload calls whose name had an extension
    nup,        \* per byte content: invocations of matrix::upload so far
    clean,      \* no cache or remote call has failed and every call was given the cache
    nuploads,   \* upload calls started so far
    settled     \* per byte content: the url the cache held for it when all calls had returned, 0 before

gvars == <<gin, gout>>
svars == <<image, pc, stage, cont, args, tmp, cancelled, cres, ret, arg, image0,
           ncalls, ndispatch, ntmp, pipeline>>
uvars == <<cache, remote, upc, uarg, umxc, uret, ucalls, cache0, remote0,
           prior, priorExt, nup, clean, nuploads, settled>>
vars == <<gvars, svars, uvars>>

(***************************************************************************)
(* The Image struct, image.rs 38-43.  data stands for the bytes: enc is    *)
(* the encoding the bytes are actually in, w and h the pixel size a        *)
(* decoder finds in them.                                                  *)
(***************************************************************************)
Bytes(enc, w, h) == [enc |-> enc, w |-> w, h |-> h]
NoImage == [file_name |-> <<>>, data |-> Bytes(<<>>, 0, 0), width |-> 0, height |-> 0]
Image(file_name, data, width, height) ==
    [file_name |-> file_name, data |-> data, width |-> width, height |-> height]

Ok == [kind |-> "ok", err |-> "none"]
Err(e) == [kind |-> "err", err |-> e]
Panic == [kind |-> "panic", err |-> "none"]
NoResult == [kind |-> "none", err |-> "none"]
NoArgs == [fmt |-> "none", max_width |-> NoneV, max_height |-> NoneV]

Tasks == 1..NumTasks
Stem == <<"a">>
StageNames == {Stem \o Dot(Tgs), Stem \o Dot(Lottie), Stem \o Dot(Webm),
               Stem \o Dot(Webp), Stem \o Dot(Gif), Stem \o Dot(Png), Stem}
Encodings == {Tgs, Lottie, Webm, Webp, Gif, Png, Bad}
\* the order in which the stages are meant to be chained
PipelineOrder == <<"unpack_tgs", "convert_lottie", "convert_webm2webp">>
Bounds == {NoneV} \cup 1..MaxBound
Formats == {"Gif", "Webp"}

UploadNames == {Stem \o Dot(Webp), <<"b">> \o Dot(Webm), Stem, Dot(Webp)}
UploadData == {Bytes(Webp, 1, 1), Bytes(Webm, 1, 1)}
\* overlapping calls: one byte content, under a name with and a name without extension
RaceNames == {Stem \o Dot(Webp), Stem}
RaceData == {Bytes(Webp, 1, 1)}

\* the cases of spec.md section 8 and the smallest exact tie (18 x 7 to width 9)
ListedDims == {7, 18, 1080, 1920}
ListedBox == {9, 270, 500, 960}
GeomInputs ==
    ((1..MaxDim) \cup ListedDims) \X ((1..MaxDim) \cup ListedDims)
    \X ({NoneV} \cup (1..MaxBox) \cup ListedBox) \X ({NoneV} \cup (1..MaxBox) \cup ListedBox)

\* the Mxc of a url (url.into()) and the url of an Mxc (mxc.url())
Mxc(url) == [url |-> url]
NoMxc == Mxc(0)

UOk(mxc, is_new) == [kind |-> "ok", err |-> "none", mxc |-> mxc, is_new |-> is_new]
UErr(e) == [kind |-> "err", err |-> e, mxc |-> NoMxc, is_new |-> FALSE]
UNone == [kind |-> "none", err |-> "none", mxc |-> NoMxc, is_new |-> FALSE]
NoCall == [file_name |-> <<>>, data |-> Bytes(<<>>, 0, 0), db |-> FALSE]

UploadIdle ==
    /\ cache = <<>> /\ remote = <<>>
    /\ upc = [t \in Tasks |-> "idle"]
    /\ uarg = [t \in Tasks |-> NoCall]
    /\ umxc = [t \in Tasks |-> NoMxc]
    /\ uret = [t \in Tasks |-> UNone]
    /\ ucalls = [t \in Tasks |-> <<>>]
    /\ cache0 = [t \in Tasks |-> <<>>]
    /\ remote0 = [t \in Tasks |-> <<>>]
    /\ prior = [d \in UploadData |-> 0]
    /\ priorExt = [d \in UploadData |-> 0]
    /\ nup = [d \in UploadData |-> 0]
    /\ clean = TRUE
    /\ nuploads = 0
    /\ settled = [d \in UploadData |-> 0]

GeomIdle == /\ gin = <<1, 1, NoneV, NoneV>>
            /\ gout = <<>>
StageIdle == /\ image = NoImage /\ pc = "end" /\ stage = "none" /\ cont = "none"
             /\ args = NoArgs /\ tmp = {} /\ cancelled = FALSE /\ cres = NoResult
             /\ ret = NoResult /\ arg = NoImage /\ image0 = NoImage
             /\ ncalls = 0 /\ ndispatch = 0 /\ ntmp = 0 /\ pipeline = 0

(***************************************************************************)
(* SpecGeom: the geometry function applied to each bounded input.          *)
(***************************************************************************)
GeomInit == /\ gin \in GeomInputs
            /\ gout = <<>>
            /\ StageIdle
            /\ UploadIdle

GeomCall == /\ gout = <<>>
            /\ gout' = resize_preserving_aspect_ratio(gin[1], gin[2], gin[3], gin[4])
            /\ UNCHANGED <<gin, svars, uvars>>

GeomNext == GeomCall
SpecGeom == GeomInit /\ [][GeomNext]_vars

(***************************************************************************)
(* Spec: one Image threaded by value through a bounded sequence of stage   *)
(* calls.  A stage closure is dispatched with tokio::task::spawn_blocking  *)
(* and runs through rayon_run; each of its fallible statements is a step.  *)
(***************************************************************************)
\* the objects a pipeline starts from: a name whose suffix names the encoding of
\* the bytes, any name with bytes in no known encoding, and a name without suffix
InitialImages ==
    {Image(Stem \o Dot(enc), Bytes(enc, w, h), 0, 0) :
        enc \in Encodings \ {Bad}, w \in 1..MaxSrc, h \in 1..2}
    \cup {Image(n, Bytes(Bad, 0, 0), 0, 0) : n \in StageNames}
    \cup {Image(Stem, Bytes(Webp, w, h), 0, 0) : w \in 1..MaxSrc, h \in 1..2}

StageInit ==
    /\ image \in InitialImages
    /\ image0 = image
    /\ pc = "caller" /\ stage = "none" /\ cont = "none" /\ args = NoArgs
    /\ tmp = {} /\ cancelled = FALSE /\ cres = NoResult /\ ret = NoResult
    /\ arg = NoImage /\ ncalls = 0 /\ ndispatch = 0 /\ ntmp = 0 /\ pipeline = 0
    /\ GeomIdle
    /\ UploadIdle

\* the suffix gates, image.rs 74, 97, 140: TRUE when the stage returns Ok(self) at once
unpack_tgs_skips(file_name) == ~EndsWith(file_name, Dot(Tgs))
convert_lottie_skips(file_name) == ~EndsWith(file_name, Dot(Lottie))
convert_webm2webp_skips_any_web(file_name) ==
    ~(EndsWith(file_name, Dot(Webm)) \/ EndsWith(file_name, Dot(Webp)))
convert_webm2webp_skips(file_name) == ~EndsWith(file_name, Dot(Webm))

\* what the still-image decoder (photon_rs open_image_from_bytes) can open
Decodable(data) == data.enc \in {Png, Webp, Gif} /\ data.w > 0 /\ data.h > 0

\* a stage function is entered: bookkeeping common to the four of them
Enter(name) ==
    /\ pc = "caller"
    /\ ncalls < MaxStages
    /\ ncalls' = ncalls + 1
    /\ stage' = name
    /\ arg' = image
    /\ ntmp' = 0
    /\ pipeline' = IF pipeline = ncalls /\ ncalls < Len(PipelineOrder)
                       /\ name = PipelineOrder[ncalls + 1]
                    THEN ncalls + 1
                    ELSE -1
    /\ UNCHANGED <<tmp, cancelled, image0, gvars, uvars>>

\* return Ok(self) before any closure is built
ReturnSelf ==
    /\ pc' = "caller" /\ ret' = Ok /\ cres' = NoResult /\ ndispatch' = 0 /\ cont' = "none"
    /\ args' = NoArgs
    /\ UNCHANGED image

\* tokio::task::spawn_blocking(move || rayon_run(move || ...)) followed by .await
Dispatch(k, a) ==
    /\ pc' = "queued" /\ ret' = NoResult /\ cres' = NoResult /\ ndispatch' = 1 /\ cont' = k
    /\ args' = a
    /\ UNCHANGED image

unpack_tgs ==
    /\ Enter("unpack_tgs")
    /\ IF unpack_tgs_skips(image.file_name) THEN ReturnSelf ELSE Dispatch("none", NoArgs)

\* image.rs 97-101: the gate, then self.unpack_tgs().await?, then the closure
convert_lottie(animation_format, max_width, max_height) ==
    /\ Enter("convert_lottie")
    /\ LET a == [fmt |-> animation_format, max_width |-> max_width, max_height |-> max_height]
       IN  IF convert_lottie_skips(image.file_name)
           THEN ReturnSelf
           ELSE IF unpack_tgs_skips(image.file_name)
                THEN Dispatch("none", a)
                ELSE Dispatch("convert_lottie", a)     \* the nested unpack_tgs runs first

convert_webm2webp(new_width, new_height) ==
    /\ Enter("convert_webm2webp")
    /\ IF convert_webm2webp_skips(image.file_name)
       THEN ReturnSelf
       ELSE Dispatch("none", [fmt |-> "none", max_width |-> new_width, max_height |-> new_height])

\* image.rs 221-231: synchronous, on the calling task; open_image_from_bytes(..).unwrap()
resize(max_width, max_height) ==
    /\ Enter("resize")
    /\ args' = [fmt |-> "none", max_width |-> max_width, max_height |-> max_height]
    /\ cres' = NoResult /\ ndispatch' = 0 /\ cont' = "none"
    /\ IF ~Decodable(image.data)
       THEN /\ ret' = Panic
            /\ image' = NoImage
            /\ pc' = "end"
       ELSE LET size == resize_preserving_aspect_ratio(image.data.w, image.data.h,
                                                       max_width, max_height)
            IN  \/ /\ image' = [image EXCEPT !.data = Bytes(Webp, size[1], size[2]),
                                              !.width = size[1],
                                              !.height = size[2]]
                   /\ ret' = Ok
                   /\ pc' = "caller"
                \/ \* nothing in resize checks the size: whether the resampler and the
                   \* encoder accept an empty image is up to them
                   /\ size[1] = 0 \/ size[2] = 0
                   /\ ret' = Panic
                   /\ image' = NoImage
                   /\ pc' = "end"

\* which closure is queued: the nested unpack_tgs of convert_lottie, or the stage's own
Running == IF cont = "none" THEN stage ELSE "unpack_tgs"

\* the blocking pool picks the closure up and rayon_run hands it to a worker
Start ==
    /\ pc = "queued"
    /\ pc' = IF Running = "unpack_tgs" THEN "gunzip" ELSE "create"
    /\ UNCHANGED <<image, stage, cont, args, tmp, cancelled, cres, ret, arg, image0,
                   ncalls, ndispatch, ntmp, pipeline, gvars, uvars>>

\* NamedTempFile's Drop when the closure's scope ends
drop_tmp_keeps(files, id) == files
drop_tmp(files, id) == files \ {id}

\* the closure returns Err(e): the Image it owned and its temporary file are dropped
Fail_keeps_image(e) ==
    /\ cres' = Err(e)
    /\ UNCHANGED image
    /\ tmp' = drop_tmp(tmp, ncalls)
    /\ pc' = "finished"
Fail(e) ==
    /\ cres' = Err(e)
    /\ image' = NoImage
    /\ tmp' = drop_tmp(tmp, ncalls)
    /\ pc' = "finished"

ClosureFrame == <<stage, cont, args, cancelled, ret, arg, image0, ncalls, ndispatch,
                  pipeline, gvars, uvars>>

\* image.rs 79-85
unpack_tgs_closure ==
    /\ pc = "gunzip"
    /\ IF image.data.enc = Tgs                    \* GzDecoder::read_to_end succeeds on gzip bytes
       THEN /\ image' = [image EXCEPT
                            !.data = Bytes(Lottie, image.data.w, image.data.h),
                            !.file_name = Truncate(@, Len(@) - 3) \o Lottie]
            /\ cres' = Ok
            /\ pc' = "finished"
            /\ UNCHANGED tmp
       ELSE Fail("Io")
    /\ UNCHANGED <<ClosureFrame, ntmp>>

\* image.rs 104 and 146: the temporary file is created
tmp_create ==
    /\ pc = "create"
    /\ \/ /\ tmp' = tmp \cup {ncalls}
          /\ ntmp' = ntmp + 1
          /\ pc' = "write"
          /\ UNCHANGED <<image, cres>>
       \/ /\ Fail("Io")
          /\ UNCHANGED ntmp
    /\ UNCHANGED ClosureFrame

\* image.rs 105 and 147: tmp.write_all(&data)?
tmp_write ==
    /\ pc = "write"
    /\ \/ /\ pc' = "flush"
          /\ UNCHANGED <<image, cres, tmp>>
       \/ Fail("Io")
    /\ UNCHANGED <<ClosureFrame, ntmp>>

\* image.rs 106 and 148: tmp.flush()?
tmp_flush ==
    /\ pc = "flush"
    /\ \/ /\ pc' = IF stage = "convert_lottie" THEN "load" ELSE "rename"
          /\ UNCHANGED <<image, cres, tmp>>
       \/ Fail("Io")
    /\ UNCHANGED <<ClosureFrame, ntmp>>

\* image.rs 107-115: Animation::from_file, the target size, the name cut to its stem and dot
lottie_load ==
    /\ pc = "load"
    /\ IF image.data.enc = Lottie
       THEN /\ image' = [image EXCEPT !.file_name = Truncate(@, Len(@) - 6)]
            /\ pc' = "convert"
            /\ UNCHANGED <<cres, tmp>>
       ELSE Fail("AnimationLoadError")
    /\ UNCHANGED <<ClosureFrame, ntmp>>

\* image.rs 117-127: the suffix the chosen AnimationFormat gives
target_suffix_always_webp(animation_format) == Webp
target_suffix(animation_format) == IF animation_format = "Gif" THEN Gif ELSE Webp

\* image.rs 110-131: render at the computed size, swap the data in, name the new suffix
lottie_convert ==
    /\ pc = "convert" /\ stage = "convert_lottie"
    /\ \/ LET new_size == resize_preserving_aspect_ratio(image.data.w, image.data.h,
                                                         args.max_width, args.max_height)
              ext == target_suffix(args.fmt)
          IN  /\ image' = [image EXCEPT !.data = Bytes(ext, new_size[1], new_size[2]),
                                        !.file_name = @ \o ext,
                                        !.width = new_size[1],
                                        !.height = new_size[2]]
              /\ cres' = Ok
              /\ tmp' = drop_tmp(tmp, ncalls)
              /\ pc' = "finished"
       \/ Fail("Lottie")
    /\ UNCHANGED <<ClosureFrame, ntmp>>

\* image.rs 150-151: the trailing m becomes p before the codec runs
webm_rename ==
    /\ pc = "rename"
    /\ image' = [image EXCEPT !.file_name = Truncate(@, Len(@) - 1) \o <<"p">>]
    /\ pc' = "convert"
    /\ UNCHANGED <<ClosureFrame, ntmp, cres, tmp>>

\* crate::video::webm2webp(path, new_width, new_height) -> (webp, width, height)
webm2webp(data, new_width, new_height) ==
    Bytes(Webp, IF new_width = NoneV THEN data.w ELSE new_width,
                IF new_height = NoneV THEN data.h ELSE new_height)

\* image.rs 152-157
webm_convert ==
    /\ pc = "convert" /\ stage = "convert_webm2webp"
    /\ \/ /\ image.data.enc = Webm
          /\ LET out == webm2webp(image.data, args.max_width, args.max_height)
             IN  image' = [image EXCEPT !.data = out, !.width = out.w, !.height = out.h]
          /\ cres' = Ok
          /\ tmp' = drop_tmp(tmp, ncalls)
          /\ pc' = "finished"
       \/ Fail("Video")
    /\ UNCHANGED <<ClosureFrame, ntmp>>

\* the closure's library work (inflate, animation load, render or codec) panics:
\* rayon::scope re-raises the panic of the spawned job (image.rs 52-54), the stack
\* unwinds dropping the Image and the temporary file, and spawn_blocking keeps
\* the panic for the JoinHandle
closure_panic ==
    /\ pc \in {"gunzip", "load", "convert"}
    /\ cres' = Panic
    /\ image' = NoImage
    /\ tmp' = drop_tmp(tmp, ncalls)
    /\ pc' = "finished"
    /\ UNCHANGED <<ClosureFrame, ntmp>>

InFlight == {"queued", "gunzip", "create", "write", "flush", "load", "rename", "convert"}

\* the future awaiting the JoinHandle is dropped; the blocking closure is not aborted
cancel ==
    /\ pc \in InFlight \cup {"finished"}
    /\ ~cancelled
    /\ cancelled' = TRUE
    /\ UNCHANGED <<image, pc, stage, cont, args, tmp, cres, ret, arg, image0,
                   ncalls, ndispatch, ntmp, pipeline, gvars, uvars>>

\* image.rs 88, 134, 160: `.await?` turns the JoinError of a closure that panicked
\* into an Error of the caller; a closure that returned gives its own Result
join_result_loses_panic(r) == IF r.kind = "panic" THEN NoResult ELSE r
join_result(r) == IF r.kind = "panic" THEN Err("Join") ELSE r

\* .await? on the JoinHandle: the caller resumes with what the closure returned
join ==
    /\ pc = "finished"
    /\ ~cancelled
    /\ IF cres.kind = "ok" /\ cont # "none"
       THEN \* convert_lottie continues after its nested unpack_tgs (image.rs 100-101)
            /\ pc' = "queued"
            /\ cont' = "none"
            /\ ndispatch' = ndispatch + 1
            /\ cres' = NoResult
            /\ UNCHANGED <<image, ret>>
       ELSE /\ ret' = join_result(cres)
            /\ pc' = IF cres.kind = "ok" THEN "caller" ELSE "end"
            /\ UNCHANGED <<image, cont, ndispatch, cres>>
    /\ UNCHANGED <<stage, args, tmp, cancelled, arg, image0, ncalls, ntmp, pipeline,
                   gvars, uvars>>

\* nobody awaits the JoinHandle any more: the closure's result is dropped
discard ==
    /\ pc = "finished"
    /\ cancelled
    /\ image' = NoImage
    /\ pc' = "end"
    /\ UNCHANGED <<stage, cont, args, tmp, cancelled, cres, ret, arg, image0,
                   ncalls, ndispatch, ntmp, pipeline, gvars, uvars>>

Next ==
    \/ unpack_tgs
    \/ \E f \in Formats, mw \in Bounds, mh \in Bounds : convert_lottie(f, mw, mh)
    \/ \E nw \in Bounds, nh \in Bounds : convert_webm2webp(nw, nh)
    \/ \E mw \in 1..MaxBound, mh \in 1..MaxBound : resize(mw, mh)
    \/ Start
    \/ unpack_tgs_closure
    \/ tmp_create
    \/ tmp_write
    \/ tmp_flush
    \/ lottie_load
    \/ lottie_convert
    \/ webm_rename
    \/ webm_convert
    \/ closure_panic
    \/ cancel
    \/ join
    \/ discard

Spec == StageInit /\ [][Next]_vars

\* SpecLive: the runtime polls a task whose JoinHandle has become ready
SpecLive == Spec /\ WF_vars(join)

(***************************************************************************)
(* SpecUpload: Image::upload, image.rs 165-183.  Each await (db.get,       *)
(* matrix::upload, db.add) is one step; a collaborator call either         *)
(* succeeds or fails, and a failed call changes nothing on its side.       *)
(***************************************************************************)
\* Image::mime_type, image.rs 59-70
mime_type_guesses(file_name) ==
    LET ext == extension(file_name)
    IN  IF ext = NoExtension THEN <<"Ok", <<"i", "m", "a", "g", "e", "/">>>>
        ELSE IF ext[2] = Webm
             THEN <<"Ok", <<"v", "i", "d", "e", "o", "/">> \o ext[2]>>
             ELSE <<"Ok", <<"i", "m", "a", "g", "e", "/">> \o ext[2]>>
mime_type(file_name) ==
    LET ext == extension(file_name)
    IN  IF ext = NoExtension THEN <<"Err", <<>>>>
        ELSE IF ext[2] = Webm
             THEN <<"Ok", <<"v", "i", "d", "e", "o", "/">> \o ext[2]>>
             ELSE <<"Ok", <<"i", "m", "a", "g", "e", "/">> \o ext[2]>>

\* database::hash(&self.data): a digest of the bytes alone
hash(data) == <<data.enc, data.w, data.h>>

\* image.rs 169: the cache key of an Image is the hash of its data, not of its name
fingerprint_of_name(file_name, data) == <<file_name, 0, 0>>
fingerprint(file_name, data) == hash(data)

\* Database::get and Database::add on the cache's content
db_get(c, h) == IF h \in DOMAIN c THEN <<"Some", c[h]>> ELSE <<"None">>
db_add(c, h, url) == [x \in DOMAIN c \cup {h} |-> IF x = h THEN url ELSE c[x]]

\* image.rs 178-182: where the call goes after matrix::upload(..).await returned
after_upload_never_adds(db, uploaded) == "done"
after_upload_ignores_error(db, uploaded) == IF db THEN "add" ELSE "done"
after_upload(db, uploaded) ==
    IF ~uploaded THEN "done"                      \* `?` returns the error
    ELSE IF db THEN "add" ELSE "done"

UploadInit ==
    /\ UploadIdle
    /\ GeomIdle
    /\ StageIdle

\* image.rs 165-172: the call is made; database is Some(db) or None
upload(t, file_name, data, db) ==
    /\ upc[t] = "idle"
    /\ nuploads < MaxUploads
    /\ nuploads' = nuploads + 1
    /\ uarg' = [uarg EXCEPT ![t] = [file_name |-> file_name, data |-> data, db |-> db]]
    /\ upc' = [upc EXCEPT ![t] = IF db THEN "get" ELSE "upload"]
    /\ umxc' = [umxc EXCEPT ![t] = NoMxc]
    /\ uret' = [uret EXCEPT ![t] = UNone]
    /\ ucalls' = [ucalls EXCEPT ![t] = <<>>]
    /\ cache0' = [cache0 EXCEPT ![t] = cache]
    /\ remote0' = [remote0 EXCEPT ![t] = remote]
    /\ clean' = (clean /\ db)
    /\ UNCHANGED <<cache, remote, prior, priorExt, nup, settled, gvars, svars>>

\* image.rs 173-175: db.get(&hash).await.map_err(Error::Database)?
cache_get(t) ==
    /\ upc[t] = "get"
    /\ \/ /\ ucalls' = [ucalls EXCEPT ![t] = Append(@, "get_err")]
          /\ uret' = [uret EXCEPT ![t] = UErr("Database")]
          /\ upc' = [upc EXCEPT ![t] = "done"]
          /\ clean' = FALSE
       \/ LET found == db_get(cache, fingerprint(uarg[t].file_name, uarg[t].data))
          IN  IF found[1] = "Some"
              THEN /\ ucalls' = [ucalls EXCEPT ![t] = Append(@, "get_hit")]
                   /\ uret' = [uret EXCEPT ![t] = UOk(Mxc(found[2]), FALSE)]
                   /\ upc' = [upc EXCEPT ![t] = "done"]
                   /\ UNCHANGED clean
              ELSE /\ ucalls' = [ucalls EXCEPT ![t] = Append(@, "get_miss")]
                   /\ upc' = [upc EXCEPT ![t] = "upload"]
                   /\ UNCHANGED <<uret, clean>>
    /\ UNCHANGED <<cache, remote, uarg, umxc, cache0, remote0, prior, priorExt, nup,
                   nuploads, settled, gvars, svars>>

\* image.rs 178: self.mime_type()? and then matrix::upload(..).await?
matrix_upload(t) ==
    /\ upc[t] = "upload"
    /\ LET a == uarg[t]
           mime == mime_type(a.file_name)
       IN  IF mime[1] = "Err"
           THEN /\ uret' = [uret EXCEPT ![t] = UErr("NoMimeType")]
                /\ upc' = [upc EXCEPT ![t] = "done"]
                /\ UNCHANGED <<remote, umxc, ucalls, nup, clean>>
           ELSE /\ nup' = [nup EXCEPT ![a.data] = @ + 1]
                /\ \/ \* the media store accepts the upload and names it
                      LET mxc == Mxc(Len(remote) + 1)
                          to == after_upload(a.db, TRUE)
                      IN  /\ remote' = Append(remote, [file_name |-> a.file_name,
                                                       data |-> a.data, mime |-> mime[2]])
                          /\ umxc' = [umxc EXCEPT ![t] = mxc]
                          /\ ucalls' = [ucalls EXCEPT ![t] = Append(@, "upload_ok")]
                          /\ upc' = [upc EXCEPT ![t] = to]
                          /\ uret' = [uret EXCEPT ![t] =
                                         IF to = "done" THEN UOk(mxc, TRUE) ELSE @]
                          /\ UNCHANGED clean
                   \/ \* transport failure
                      LET to == after_upload(a.db, FALSE)
                      IN  /\ ucalls' = [ucalls EXCEPT ![t] = Append(@, "upload_err")]
                          /\ upc' = [upc EXCEPT ![t] = to]
                          /\ uret' = [uret EXCEPT ![t] =
                                         IF to = "done" THEN UErr("Matrix") ELSE @]
                          /\ clean' = FALSE
                          /\ UNCHANGED <<remote, umxc>>
    /\ UNCHANGED <<cache, uarg, cache0, remote0, prior, priorExt, nuploads, settled,
                   gvars, svars>>

\* image.rs 180-182: db.add(*hash, mxc.url().to_owned()).await.map_err(Error::Database)?
cache_add(t) ==
    /\ upc[t] = "add"
    /\ \/ /\ cache' = db_add(cache, fingerprint(uarg[t].file_name, uarg[t].data),
                            umxc[t].url)
          /\ ucalls' = [ucalls EXCEPT ![t] = Append(@, "add_ok")]
          /\ uret' = [uret EXCEPT ![t] = UOk(umxc[t], TRUE)]
          /\ UNCHANGED clean
       \/ /\ ucalls' = [ucalls EXCEPT ![t] = Append(@, "add_err")]
          /\ uret' = [uret EXCEPT ![t] = UErr("Database")]
          /\ clean' = FALSE
          /\ UNCHANGED cache
    /\ upc' = [upc EXCEPT ![t] = "done"]
    /\ UNCHANGED <<remote, uarg, umxc, cache0, remote0, prior, priorExt, nup,
                   nuploads, settled, gvars, svars>>

\* the caller has taken the Result and the call's frame is gone; the task may call again
upload_returned(t) ==
    /\ upc[t] = "done"
    /\ upc' = [upc EXCEPT ![t] = "idle"]
    /\ prior' = [prior EXCEPT ![uarg[t].data] = @ + 1]
    /\ priorExt' = [priorExt EXCEPT ![uarg[t].data] =
                       IF extension(uarg[t].file_name) = NoExtension THEN @ ELSE @ + 1]
    /\ uarg' = [uarg EXCEPT ![t] = NoCall]
    /\ umxc' = [umxc EXCEPT ![t] = NoMxc]
    /\ uret' = [uret EXCEPT ![t] = UNone]
    /\ ucalls' = [ucalls EXCEPT ![t] = <<>>]
    /\ cache0' = [cache0 EXCEPT ![t] = <<>>]
    /\ remote0' = [remote0 EXCEPT ![t] = <<>>]
    /\ settled' = [d \in UploadData |->
                      IF settled[d] # 0 THEN settled[d]
                      ELSE IF (\A o \in Tasks \ {t} : upc[o] = "idle")
                              /\ hash(d) \in DOMAIN cache
                           THEN cache[hash(d)]
                           ELSE 0]
    /\ UNCHANGED <<cache, remote, nup, clean, nuploads, gvars, svars>>

\* non-overlapping calls: a call starts only when no other call is in progress
UploadNext ==
    \/ \E t \in Tasks, n \in UploadNames, d \in UploadData, db \in BOOLEAN :
          /\ \A o \in Tasks : upc[o] = "idle"
          /\ upload(t, n, d, db)
    \/ \E t \in Tasks : cache_get(t)
    \/ \E t \in Tasks : matrix_upload(t)
    \/ \E t \in Tasks : cache_add(t)
    \/ \E t \in Tasks : upload_returned(t)

SpecUpload == UploadInit /\ [][UploadNext]_vars

(***************************************************************************)
(* SpecUploadConc: the same upload calls made by independent tasks.  upload *)
(* takes &self and holds no lock, so calls overlap and their awaits        *)
(* interleave in any order.                                                *)
(***************************************************************************)
UploadConcNext ==
    \/ \E t \in Tasks, n \in RaceNames, d \in RaceData, db \in BOOLEAN :
          upload(t, n, d, db)
    \/ \E t \in Tasks : cache_get(t)
    \/ \E t \in Tasks : matrix_upload(t)
    \/ \E t \in Tasks : cache_add(t)
    \/ \E t \in Tasks : upload_returned(t)

SpecUploadConc == UploadInit /\ [][UploadConcNext]_vars

(***************************************************************************)
(* Claims about upload, checked under SpecUpload.                          *)
(***************************************************************************)
Has(calls, c) == \E i \in 1..Len(calls) : calls[i] = c
Uploaded(calls) == Has(calls, "upload_ok") \/ Has(calls, "upload_err")
Added(calls) == Has(calls, "add_ok") \/ Has(calls, "add_err")
HasExtension(file_name) == \E i \in 2..Len(file_name) : file_name[i] = "."
Stored(t) ==
    /\ uret[t].kind = "ok"
    /\ ~uret[t].is_new
    /\ hash(uarg[t].data) \in DOMAIN cache
    /\ uret[t].mxc.url = cache[hash(uarg[t].data)]
    /\ ~Uploaded(ucalls[t])

\* C1 (as stated): in a sequence of non-overlapping upload calls sharing the cache
\* in which every cache and remote call succeeds, the remote upload is invoked at
\* most once per byte content: the first call for given bytes returns is_new=true
\* and every later call with the same bytes returns the stored reference with
\* is_new=false without invoking the remote upload.
C1_FirstCallIsNew ==
    \A t \in Tasks :
        (upc[t] = "done" /\ clean) =>
            /\ nup[uarg[t].data] <= 1
            /\ IF prior[uarg[t].data] = 0
               THEN uret[t].kind = "ok" /\ uret[t].is_new
               ELSE Stored(t)

\* C1 (amended): ... the remote upload is invoked at most once per byte content:
\* the first call for given bytes whose file name has an extension returns
\* is_new=true (a call before it whose name has no extension fails with
\* NoMimeType and uploads nothing), and every later call with the same bytes,
\* whatever its file name, returns the stored reference with is_new=false
\* without invoking the remote upload.
C1_FirstNamedCallIsNew ==
    \A t \in Tasks :
        (upc[t] = "done" /\ clean) =>
            /\ nup[uarg[t].data] <= 1
            /\ IF priorExt[uarg[t].data] = 0
               THEN IF HasExtension(uarg[t].file_name)
                    THEN uret[t].kind = "ok" /\ uret[t].is_new /\ Has(ucalls[t], "upload_ok")
                    ELSE uret[t] = UErr("NoMimeType") /\ nup[uarg[t].data] = 0
               ELSE Stored(t)

C1_SecondCallOtherName ==
    \E t \in Tasks :
        /\ upc[t] = "done" /\ clean
        /\ priorExt[uarg[t].data] = 1
        /\ uarg[t].file_name = Stem
        /\ Stored(t)
        /\ remote[uret[t].mxc.url].file_name # Stem

\* C2: an upload call that returns an error (NoMimeType, a transport failure, a
\* database failure of cache get or cache add) has left both the cache and the
\* remote store as they were when it started.
C2_FailedCallLeavesNoState ==
    \A t \in Tasks :
        (upc[t] = "done" /\ uret[t].kind = "err") =>
            /\ cache = cache0[t]
            /\ remote = remote0[t]

\* C3: when an upload call misses the cache and the remote upload then fails, the
\* call returns that error, never invokes cache add, and the cache holds no entry
\* for the object's fingerprint afterwards.
C3_MissThenUploadFailure ==
    \A t \in Tasks :
        (Has(ucalls[t], "get_miss") /\ Has(ucalls[t], "upload_err")) =>
            /\ upc[t] = "done"
            /\ uret[t] = UErr("Matrix")
            /\ ucalls[t] = <<"get_miss", "upload_err">>
            /\ hash(uarg[t].data) \notin DOMAIN cache
            /\ cache = cache0[t]

C3_UploadFailedAfterMiss ==
    \E t \in Tasks :
        /\ upc[t] = "done"
        /\ ucalls[t] = <<"get_miss", "upload_err">>
        /\ uret[t] = UErr("Matrix")
        /\ cache # <<>>

\* the MIME type the claim assigns to a name with an extension
MimeOfSuffix(file_name) ==
    LET ext == SubSeq(file_name, LastDot(file_name) + 1, Len(file_name))
    IN  IF ext = <<"w", "e", "b", "m">>
        THEN <<"v", "i", "d", "e", "o", "/", "w", "e", "b", "m">>
        ELSE <<"i", "m", "a", "g", "e", "/">> \o ext

MimeBySuffixOnly ==
    \A i \in 1..Len(remote) :
        /\ HasExtension(remote[i].file_name)
        /\ remote[i].mime = MimeOfSuffix(remote[i].file_name)

\* C8 (as stated): for a file name without extension no upload call invokes the
\* remote upload or adds to the cache; when the cache holds no entry for the
\* fingerprint (or no cache is supplied) the call fails with NoMimeType.  The MIME
\* type is video/webm for extension webm and image/<ext> for any other extension.
C8_NoExtensionNoMimeType ==
    /\ MimeBySuffixOnly
    /\ \A t \in Tasks :
          (upc[t] # "idle" /\ ~HasExtension(uarg[t].file_name)) =>
              /\ ~Uploaded(ucalls[t])
              /\ ~Added(ucalls[t])
              /\ upc[t] # "add"
              /\ (upc[t] = "done"
                  /\ (~uarg[t].db \/ hash(uarg[t].data) \notin DOMAIN cache0[t]))
                 => uret[t] = UErr("NoMimeType")

\* C8 (amended): ... when the cache get succeeds and finds no entry for the
\* fingerprint (or no cache is supplied) the call fails with NoMimeType; when the
\* cache get itself fails the call fails with that database error instead.
C8_NoExtensionNoMimeTypeUnlessGetFails ==
    /\ MimeBySuffixOnly
    /\ \A t \in Tasks :
          (upc[t] # "idle" /\ ~HasExtension(uarg[t].file_name)) =>
              /\ ~Uploaded(ucalls[t])
              /\ ~Added(ucalls[t])
              /\ upc[t] # "add"
              /\ (upc[t] = "done"
                  /\ (~uarg[t].db \/ hash(uarg[t].data) \notin DOMAIN cache0[t]))
                 => uret[t] = IF Has(ucalls[t], "get_err")
                              THEN UErr("Database")
                              ELSE UErr("NoMimeType")

C8_NoMimeTypeAfterMiss ==
    \E t \in Tasks :
        /\ upc[t] = "done"
        /\ uarg[t].file_name = Dot(Webp)
        /\ ucalls[t] = <<"get_miss">>
        /\ uret[t] = UErr("NoMimeType")
        /\ Len(remote) > 0

\* the collaborator calls one upload call with a cache can have made, in order
CallOrders ==
    {<<>>, <<"get_err">>, <<"get_hit">>, <<"get_miss">>,
     <<"get_miss", "upload_ok">>, <<"get_miss", "upload_err">>,
     <<"get_miss", "upload_ok", "add_ok">>, <<"get_miss", "upload_ok", "add_err">>}

\* C15: within one upload call with a cache supplied the collaborator calls are
\* cache get, remote upload, cache add in this order, each at most once: the
\* upload only after a miss, the add only after that upload succeeded; a call
\* that returns (reference, true) has made all three, returns the reference its
\* upload returned, and has stored exactly that reference under the fingerprint
\* of its bytes before returning.
C15_GetUploadAddInOrder ==
    \A t \in Tasks :
        (upc[t] # "idle" /\ uarg[t].db) =>
            /\ ucalls[t] \in CallOrders
            /\ upc[t] = "get" => ucalls[t] = <<>>
            /\ upc[t] = "upload" => ucalls[t] = <<"get_miss">>
            /\ upc[t] = "add" => ucalls[t] = <<"get_miss", "upload_ok">>
            /\ (upc[t] = "done" /\ uret[t].kind = "ok" /\ uret[t].is_new) =>
                  /\ ucalls[t] = <<"get_miss", "upload_ok", "add_ok">>
                  /\ uret[t].mxc = umxc[t]
                  /\ umxc[t] = Mxc(Len(remote))
                  /\ Len(remote) = Len(remote0[t]) + 1
                  /\ remote[Len(remote)].data = uarg[t].data
                  /\ cache = db_add(cache0[t], hash(uarg[t].data), umxc[t].url)

C15_AddedSecondEntry ==
    \E t \in Tasks :
        /\ upc[t] = "done"
        /\ ucalls[t] = <<"get_miss", "upload_ok", "add_ok">>
        /\ uret[t] = UOk(Mxc(2), TRUE)
        /\ cache0[t] # <<>>
        /\ cache[hash(uarg[t].data)] = 2

(***************************************************************************)
(* Claims about overlapping upload calls, checked under SpecUploadConc.    *)
(***************************************************************************)
\* C11: two upload calls on identical bytes that both queried the cache before
\* either had recorded its result (both missed) both perform a real remote upload
\* and, no call of theirs failing and both names having an extension, both
\* return is_new=true after adding their own reference: two remote uploads for
\* one fingerprint.
C11_BothMissBothUpload ==
    \A t \in Tasks, u \in Tasks :
        (/\ t # u
         /\ upc[t] = "done" /\ upc[u] = "done"
         /\ uarg[t].data = uarg[u].data
         /\ Has(ucalls[t], "get_miss") /\ Has(ucalls[u], "get_miss")
         /\ HasExtension(uarg[t].file_name) /\ HasExtension(uarg[u].file_name)
         /\ \A c \in {"upload_err", "add_err"} : ~Has(ucalls[t], c) /\ ~Has(ucalls[u], c))
        => /\ ucalls[t] = <<"get_miss", "upload_ok", "add_ok">>
           /\ ucalls[u] = <<"get_miss", "upload_ok", "add_ok">>
           /\ uret[t] = UOk(umxc[t], TRUE)
           /\ uret[u] = UOk(umxc[u], TRUE)
           /\ nup[uarg[t].data] >= 2
           /\ Cardinality({i \in 1..Len(remote) : remote[i].data = uarg[t].data}) >= 2

C11_TwoUploadsOneFingerprint ==
    \E t \in Tasks, u \in Tasks :
        /\ t # u
        /\ upc[t] = "done" /\ upc[u] = "done"
        /\ uarg[t].data = uarg[u].data
        /\ ucalls[t] = <<"get_miss", "upload_ok", "add_ok">>
        /\ ucalls[u] = <<"get_miss", "upload_ok", "add_ok">>
        /\ uret[t].is_new /\ uret[u].is_new
        /\ uret[t].mxc # uret[u].mxc
        /\ nup[uarg[t].data] = 2

\* the cache maps the fingerprint of d to the reference of a remote upload of d
MapsToUploadOf(d) ==
    /\ hash(d) \in DOMAIN cache
    /\ cache[hash(d)] \in 1..Len(remote)
    /\ remote[cache[hash(d)]].data = d

\* a call for d that started after all earlier calls had returned gets the stored
\* reference without a remote upload
LaterCallsGetStored(d) ==
    \A t \in Tasks :
        (upc[t] = "done" /\ uarg[t].data = d /\ settled[d] # 0) =>
            /\ uret[t] = UOk(Mxc(settled[d]), FALSE)
            /\ ucalls[t] = <<"get_hit">>
            /\ cache[hash(d)] = settled[d]

\* C20 (as stated): when several upload calls for identical bytes run concurrently
\* against one cache and every collaborator call succeeds, then once all of them
\* have returned the cache maps the fingerprint to a reference returned by one of
\* the real remote uploads, and every upload call for those bytes that starts
\* afterwards returns is_new=false with that reference and uploads nothing.
C20_AllReturnedThenStored ==
    \A d \in UploadData :
        clean =>
            /\ ((\A t \in Tasks : upc[t] = "idle") /\ prior[d] > 0) => MapsToUploadOf(d)
            /\ LaterCallsGetStored(d)

\* C20 (amended): ... and at least one of them was given a file name with an
\* extension (calls whose name has no extension fail with NoMimeType and record
\* nothing), then once all of them have returned the cache maps the fingerprint
\* to a reference returned by one of the real remote uploads, and every upload
\* call for those bytes that starts afterwards returns is_new=false with that
\* reference and uploads nothing.
C20_NamedReturnedThenStored ==
    \A d \in UploadData :
        clean =>
            /\ ((\A t \in Tasks : upc[t] = "idle") /\ priorExt[d] > 0) => MapsToUploadOf(d)
            /\ LaterCallsGetStored(d)

C20_HitAfterRace ==
    \E t \in Tasks, d \in UploadData :
        /\ clean
        /\ nup[d] = 2
        /\ settled[d] # 0
        /\ upc[t] = "done"
        /\ uarg[t].data = d
        /\ uret[t] = UOk(Mxc(settled[d]), FALSE)
        /\ MapsToUploadOf(d)

(***************************************************************************)
(* Claims about the stages, checked under Spec.                            *)
(***************************************************************************)
\* the name's suffix names the encoding the bytes are in
SuffixMatches(img) == EndsWith(img.file_name, Dot(img.data.enc))

\* C4: after any sequence of successful stage calls on an object whose suffix
\* matched the encoding of its bytes, the returned object's suffix still matches
\* the encoding of its bytes.
C4_SuffixFollowsEncoding ==
    (pc = "caller" /\ SuffixMatches(image0)) => SuffixMatches(image)

InputSuffix(s) ==
    IF s = "unpack_tgs" THEN Dot(Tgs)
    ELSE IF s = "convert_lottie" THEN Dot(Lottie)
    ELSE Dot(Webm)

C6_LottieAcceptsTgs ==
    (/\ stage = "convert_lottie"
     /\ pc = "caller"
     /\ EndsWith(arg.file_name, Dot(Tgs))
     /\ arg.data.enc = Tgs)
    => /\ EndsWith(image.file_name, Dot(Gif)) \/ EndsWith(image.file_name, Dot(Webp))
       /\ image # arg

\* C9: resize on bytes that are not a decodable still image returns an error
\* value to its caller and no Image; it does not fault the calling task.
C9_ResizeReturnsDecodeError ==
    (stage = "resize" /\ ~Decodable(arg.data))
    => /\ ret.kind = "err"
       /\ image = NoImage

\* C10: once the closure of convert_lottie or convert_webm2webp has finished, by
\* success, by an I/O error, by a load, render or codec failure, the caller
\* cancelled or not, no temporary file it created remains.
C10_TmpRemovedOnExit ==
    /\ pc \notin {"write", "flush", "load", "rename", "convert"} => tmp = {}
    /\ tmp \subseteq {ncalls}

C10_FailedAfterTmpWhileCancelled ==
    /\ pc = "finished"
    /\ stage = "convert_webm2webp"
    /\ cancelled
    /\ ntmp = 1
    /\ cres = Err("Video")
    /\ tmp = {}

\* the calling task of an offloaded call has not resumed while the closure runs,
\* and has resumed with what the closure produced
ResumedWithOutcome ==
    /\ pc \in InFlight => ret = NoResult
    /\ (pc \in {"caller", "end"} /\ ndispatch >= 1 /\ ~cancelled) =>
          /\ cres # NoResult
          /\ ret = IF cres.kind = "panic" THEN Err("Join") ELSE cres
          /\ ret # NoResult
          /\ ret = Ok => (pc = "caller" /\ image # NoImage /\ image # arg)
          /\ ret # Ok => (pc = "end" /\ image = NoImage)

\* the closure is over, by return or by panic, and its caller still awaits it
Awaited == pc = "finished" /\ ~cancelled

\* C14: for every offloaded stage call that is not cancelled the calling task
\* resumes only after the closure has finished and with the closure's outcome:
\* the transformed object on success, the stage error on failure, an error when
\* the closure panicked; a caller whose closure is over is eventually resumed,
\* never left suspended.
C14_ResumesWithOutcome ==
    /\ []ResumedWithOutcome
    /\ Awaited ~> (cancelled \/ pc \in {"caller", "end"})

C14_ResumedAfterPanic ==
    /\ stage = "convert_lottie"
    /\ pc = "end"
    /\ ~cancelled
    /\ cres = Panic
    /\ ret = Err("Join")
    /\ ntmp = 1
    /\ image = NoImage

\* C12: if the orchestrating task of a stage is cancelled before the offloaded
\* closure has started executing, the closure never runs; if it is cancelled
\* after the closure has started, the closure is not aborted, runs on to its end,
\* and its result is discarded (the caller never receives it).
C12_CancelBeforeStartPreventsClosure ==
    [][/\ (cancelled /\ pc = "queued") => pc' = "queued"
       /\ (cancelled /\ pc \in InFlight \ {"queued"}) => pc' \in InFlight \cup {"finished"}
       /\ cancelled => (ret' = NoResult /\ pc' # "caller")]_vars

\* the stages that offload their work
Offloading == {"unpack_tgs", "convert_lottie", "convert_webm2webp"}

\* C16: when unpack_tgs, convert_lottie or convert_webm2webp fails the caller
\* receives only an error and no object; the object with its suffix already
\* renamed and its bytes not yet swapped, which exists inside convert_lottie and
\* convert_webm2webp, never reaches the caller.
C16_FailureReturnsNoObject ==
    /\ (stage \in Offloading /\ ret.kind = "err") => (pc = "end" /\ image = NoImage)
    /\ (stage \in Offloading /\ pc = "caller" /\ image.file_name # arg.file_name) =>
          /\ image.data # arg.data
          /\ SuffixMatches(arg) => SuffixMatches(image)

C16_FailedAfterRename ==
    /\ stage = "convert_webm2webp"
    /\ pc = "end"
    /\ ~cancelled
    /\ ntmp = 1
    /\ ret = Err("Video")
    /\ EndsWith(arg.file_name, Dot(Webm))
    /\ image = NoImage

\* C17: after resize or convert_lottie has returned successfully for a source
\* whose decoded width and height are both non-zero, with non-zero bounds, the
\* returned object's width and height are both non-zero.
C17_ResultSizeNonZero ==
    (/\ pc = "caller" /\ ret = Ok
     /\ stage = "resize" \/ (stage = "convert_lottie" /\ ndispatch >= 1)
     /\ arg.data.w > 0 /\ arg.data.h > 0)
    => (image.width > 0 /\ image.height > 0)

\* new is old with its extension from replaced by to
Renamed(old, new, from, to) ==
    /\ EndsWith(old, Dot(from))
    /\ new = Truncate(old, Len(old) - Len(from)) \o to

\* C19: a stage call that returns another name has gone tgs -> lottie
\* (unpack_tgs), lottie -> gif or webp by the AnimationFormat (convert_lottie) or
\* webm -> webp (convert_webm2webp), replacing exactly the extension; and
\* unpack_tgs, convert_lottie, convert_webm2webp applied in this order, all
\* succeeding, to a name ending in tgs, lottie, webm, webp or gif give a name
\* ending in webp or gif, which all three stages return unchanged.
C19_SuffixPath ==
    /\ (pc = "caller" /\ stage # "none" /\ image.file_name # arg.file_name) =>
          \/ stage = "unpack_tgs" /\ Renamed(arg.file_name, image.file_name, Tgs, Lottie)
          \/ /\ stage = "convert_lottie"
             /\ Renamed(arg.file_name, image.file_name, Lottie,
                        IF args.fmt = "Gif" THEN Gif ELSE Webp)
          \/ stage = "convert_webm2webp" /\ Renamed(arg.file_name, image.file_name, Webm, Webp)
    /\ (/\ pc = "caller" /\ pipeline = Len(PipelineOrder)
        /\ \E e \in {Tgs, Lottie, Webm, Webp, Gif} : EndsWith(image0.file_name, Dot(e)))
       => /\ EndsWith(image.file_name, Dot(Webp)) \/ EndsWith(image.file_name, Dot(Gif))
          /\ unpack_tgs_skips(image.file_name)
          /\ convert_lottie_skips(image.file_name)
          /\ convert_webm2webp_skips(image.file_name)

C19_TgsToGif ==
    /\ pc = "caller"
    /\ pipeline = Len(PipelineOrder)
    /\ image0.file_name = Stem \o Dot(Tgs)
    /\ image.file_name = Stem \o Dot(Gif)
    /\ image.data.enc = Gif

\* C13: every stage that does CPU-bound work (decompression, rendering,
\* decoding, resampling, encoding) runs it in a closure dispatched to the worker
\* pool: a stage call that returned an object with new bytes has dispatched a
\* closure, the calling task did not compute them itself.
C13_WorkIsOffloaded ==
    (pc = "caller" /\ stage # "none" /\ ret = Ok /\ image.data # arg.data)
    => ndispatch >= 1

(***************************************************************************)
(* Exact arithmetic the claims are stated in.                              *)
(***************************************************************************)
\* round-half-away-from-zero of num/den, den > 0
RoundHalfAway(num, den) == (2 * num + den) \div (2 * den)

\* the policy table of spec.md 4.2 in exact rational arithmetic
ExactPolicy(w, h, mw, mh) ==
    IF mw = NoneV /\ mh = NoneV THEN <<w, h>>
    ELSE IF mh = NoneV THEN <<mw, RoundHalfAway(mw * h, w)>>
    ELSE IF mw = NoneV THEN <<RoundHalfAway(mh * w, h), mh>>
    ELSE IF mw * h <= mh * w                      \* mw/w <= mh/h : s = mw/w
         THEN <<RoundHalfAway(w * mw, w), RoundHalfAway(h * mw, w)>>
         ELSE <<RoundHalfAway(w * mh, h), RoundHalfAway(h * mh, h)>>

\* C7: for positive width and height the function returns the policy table's
\* value with round-half-away-from-zero on each dimension, computed exactly;
\* in particular the three listed results.
C7_PolicyTableExact ==
    gout # <<>> => gout = ExactPolicy(gin[1], gin[2], gin[3], gin[4])

\* C18: for positive width and height and both bounds present the result fits
\* inside the bounding box and touches it: new_width <= max_width and
\* new_height <= max_height, and new_width = max_width or new_height = max_height.
C18_FitsAndTouches ==
    (gout # <<>> /\ gin[3] # NoneV /\ gin[4] # NoneV) =>
        /\ gout[1] <= gin[3]
        /\ gout[2] <= gin[4]
        /\ gout[1] = gin[3] \/ gout[2] = gin[4]

C18_PortraitInSquare ==
    /\ gin = <<1080, 1920, 500, 500>>
    /\ gout = <<281, 500>>
====
